---- MODULE Spec2Model ----
(***************************************************************************)
(* A model of the rundas data frame: the base table with its string        *)
(* storage, the Arc-shared tree of views (Base, ColumnReorder,             *)
(* LineReorder), the resolvers get / get_on_header, the transformations,   *)
(* grouping, materialisation back into a base table and the appends.       *)
(*                                                                         *)
(* Rust indices are 0-based; a Vec is a TLA+ sequence, so Vec element i is *)
(* seq[i + 1].  A text is a sequence of one-character strings.             *)
(***************************************************************************)
EXTENDS Integers, Sequences, FiniteSets, TLC

VARIABLES
    df,      \* the DataFrame handle the caller holds (a view tree)
    groups,  \* the Groups collection returned by the last group_by
    last,    \* the last call: its name, arguments, input and outcome
    mem,         \* the heap cells holding base tables (sharing model)
    held,        \* a second handle another reader keeps, with what it read
    line_iter,   \* a LineIter in use, with the rows it has yielded
    chunk_iter   \* a ChunkIter in use, with the cells it has yielded

vars == <<df, groups, last, mem, held, line_iter, chunk_iter>>

---------------------------------------------------------------------------
(* Bounds of the model *)

MaxRows == 2
NumCols == 3
MaxDepth == 2
MaxLineLen == 4   \* length of the generated text lines
MaxLines == 3     \* lines of a text read as a file

---------------------------------------------------------------------------
(* Generic helpers: Option, Result-with-panic, Rust ranges *)

None == [some |-> FALSE]
Some(x) == [some |-> TRUE, val |-> x]

Panic(msg) == [panic |-> TRUE, msg |-> msg]
Ok(x) == [panic |-> FALSE, val |-> x]

\* the Vec collected from the Rust range a..b
Range0(a, b) == [i \in 1..(IF b > a THEN b - a ELSE 0) |-> a + i - 1]

Min(a, b) == IF a < b THEN a ELSE b

---------------------------------------------------------------------------
(* Cell values: Data (decoded) and InnerData (stored, strings as ranges) *)

Integer(n) == [tag |-> "Integer", int |-> n]
String(s) == [tag |-> "String", str |-> s]
Vector(v) == [tag |-> "Vector", vec |-> v]

InnerInteger(n) == [tag |-> "Integer", int |-> n]
InnerString(start, end) == [tag |-> "String", range |-> [start |-> start, end |-> end]]
InnerVector(v) == [tag |-> "Vector", vec |-> v]

\* &string_storage[range]
Slice(string_storage, range) ==
    SubSeq(string_storage, range.start + 1, range.end)

RECURSIVE as_data(_, _)
as_data(inner, string_storage) ==
    CASE inner.tag = "String" -> String(Slice(string_storage, inner.range))
      [] inner.tag = "Integer" -> Integer(inner.int)
      [] inner.tag = "Vector" ->
            Vector([i \in 1..Len(inner.vec) |-> as_data(inner.vec[i], string_storage)])
      [] OTHER -> inner  \* Float, Boolean, Date, Vec2D: copied

\* start..end of a text pushed onto the string storage: the range points at
\* the bytes just appended
PushRange(string_storage, text) ==
    [start |-> Len(string_storage), end |-> Len(string_storage) + Len(text)]

\* Data::into_inner_data: [inner, string_storage] after interning
RECURSIVE into_inner_data(_, _)
RECURSIVE InternAll(_, _)
into_inner_data(data, string_storage) ==
    CASE data.tag = "String" ->
            LET r == PushRange(string_storage, data.str) IN
            [inner |-> InnerString(r.start, r.end),
             string_storage |-> string_storage \o data.str]
      [] data.tag = "Integer" ->
            [inner |-> InnerInteger(data.int), string_storage |-> string_storage]
      [] data.tag = "Vector" ->
            LET r == InternAll(data.vec, string_storage) IN
            [inner |-> InnerVector(r.inners), string_storage |-> r.string_storage]
      [] OTHER -> \* Float, Boolean, Date, Vec2D: copied
            [inner |-> data, string_storage |-> string_storage]

\* a sequence of cells interned left to right into one storage
InternAll(cells, string_storage) ==
    IF cells = <<>> THEN [inners |-> <<>>, string_storage |-> string_storage]
    ELSE LET first == into_inner_data(Head(cells), string_storage)
             rest == InternAll(Tail(cells), first.string_storage)
         IN [inners |-> <<first.inner>> \o rest.inners,
             string_storage |-> rest.string_storage]

\* the header names pushed one after the other: [header (ranges), string_storage]
RECURSIVE InternHeader(_, _)
InternHeader(names, string_storage) ==
    IF names = <<>> THEN [header |-> <<>>, string_storage |-> string_storage]
    ELSE LET r == PushRange(string_storage, Head(names))
             rest == InternHeader(Tail(names), string_storage \o Head(names))
         IN [header |-> <<r>> \o rest.header, string_storage |-> rest.string_storage]

\* rows interned row by row into one storage: [data, string_storage]
RECURSIVE InternRows(_, _)
InternRows(rows, string_storage) ==
    IF rows = <<>> THEN [data |-> <<>>, string_storage |-> string_storage]
    ELSE LET first == InternAll(Head(rows), string_storage)
             rest == InternRows(Tail(rows), first.string_storage)
         IN [data |-> <<first.inners>> \o rest.data,
             string_storage |-> rest.string_storage]

---------------------------------------------------------------------------
(* BaseDataFrame and the view tree *)

BaseDataFrame(string_storage, header, data) ==
    [string_storage |-> string_storage,
     identity_index_map |-> Range0(0, Len(header)),
     header |-> header,
     data |-> data]

Base(base) == [kind |-> "Base", df |-> base]
ColumnReorder(parent, index_map) ==
    [kind |-> "ColumnReorder", df |-> parent, index_map |-> index_map]
LineReorder(parent, index_map) ==
    [kind |-> "LineReorder", df |-> parent, index_map |-> index_map]

\* a base table built from names and decoded rows: the header is interned
\* first, then the cells in row-major order
BuildBase(names, rows) ==
    LET h == InternHeader(names, <<>>)
        d == InternRows(rows, h.string_storage)
    IN BaseDataFrame(d.string_storage, h.header, d.data)

\* DataFrame::new
new(names) == Base(BuildBase(names, <<>>))

RECURSIVE Depth(_)
Depth(v) == IF v.kind = "Base" THEN 0 ELSE 1 + Depth(v.df)

RECURSIVE len(_)
len(v) ==
    CASE v.kind = "Base" -> Len(v.df.data)
      [] v.kind = "LineReorder" -> Len(v.index_map)
      [] v.kind = "ColumnReorder" -> len(v.df)

RECURSIVE num_columns(_)
num_columns(v) ==
    CASE v.kind = "Base" -> Len(v.df.header)
      [] v.kind = "LineReorder" -> num_columns(v.df)
      [] v.kind = "ColumnReorder" -> Len(v.index_map)

---------------------------------------------------------------------------
(* Line: the backing row, the storage it decodes against, the index map *)

Line(string_storage, line, index_map) ==
    [string_storage |-> string_storage, line |-> line, index_map |-> index_map]

\* Line::with_index_map: the map is replaced
with_index_map(line, index_map) ==
    [line EXCEPT !.index_map = index_map]

\* Line::iter collected: &self.line[*index] panics when out of bounds
LineIter(line) ==
    IF \E i \in 1..Len(line.index_map) : line.index_map[i] >= Len(line.line)
    THEN Panic("index out of bounds")
    ELSE Ok([i \in 1..Len(line.index_map) |->
                as_data(line.line[line.index_map[i] + 1], line.string_storage)])

\* Index<usize> for Line
LineIndex(line, index) ==
    IF index >= Len(line.index_map) THEN Panic("index out of bounds")
    ELSE IF line.index_map[index + 1] >= Len(line.line) THEN Panic("index out of bounds")
    ELSE Ok(as_data(line.line[line.index_map[index + 1] + 1], line.string_storage))

---------------------------------------------------------------------------
(* Resolvers *)

RECURSIVE get(_, _)
get(v, index) ==
    CASE v.kind = "Base" ->
            IF index < Len(v.df.data)
            THEN Some(Line(v.df.string_storage, v.df.data[index + 1],
                           v.df.identity_index_map))
            ELSE None
      [] v.kind = "LineReorder" ->
            IF index < Len(v.index_map)
            THEN get(v.df, v.index_map[index + 1])
            ELSE None
      [] v.kind = "ColumnReorder" ->
            LET line == get(v.df, index) IN
            IF line.some THEN Some(with_index_map(line.val, v.index_map)) ELSE None

RECURSIVE get_on_header(_, _)
get_on_header(v, index) ==
    CASE v.kind = "Base" ->
            IF index < Len(v.df.header)
            THEN Some(Slice(v.df.string_storage, v.df.header[index + 1]))
            ELSE None
      [] v.kind = "LineReorder" -> get_on_header(v.df, index)
      [] v.kind = "ColumnReorder" ->
            IF index < Len(v.index_map)
            THEN get_on_header(v.df, v.index_map[index + 1])
            ELSE None

\* HeaderIter collected: asserts that every name exists
header(v) ==
    IF \E j \in 0..(num_columns(v) - 1) : ~get_on_header(v, j).some
    THEN Panic("assertion failed: item.is_some()")
    ELSE Ok([j \in 1..num_columns(v) |-> get_on_header(v, j - 1).val])

\* LineIter collected: asserts that every row exists
iter(v) ==
    IF \E i \in 0..(len(v) - 1) : ~get(v, i).some
    THEN Panic("assertion failed: item.is_some()")
    ELSE Ok([i \in 1..len(v) |-> get(v, i - 1).val])

---------------------------------------------------------------------------
(* Caller-supplied closures: the key of a line is the rank of one cell *)

Rank(data) ==
    CASE data.tag = "Integer" -> data.int
      [] data.tag = "String" -> Len(data.str)
      [] data.tag = "Vector" -> Len(data.vec)

\* key_gen / grouper: |line| rank(line[k])
KeyFn(k, line) ==
    LET cell == LineIndex(line, k) IN
    IF cell.panic THEN cell ELSE Ok(Rank(cell.val))

\* filter: |line| rank(line[k]) == c
PredFn(k, c, line) ==
    LET key == KeyFn(k, line) IN
    IF key.panic THEN key ELSE Ok(key.val = c)

\* the keys of every logical row of v, or the panic of the first that fails
KeysOf(v, k) ==
    LET lines == iter(v) IN
    IF lines.panic THEN lines
    ELSE IF \E i \in 1..Len(lines.val) : KeyFn(k, lines.val[i]).panic
    THEN Panic("index out of bounds")
    ELSE Ok([i \in 1..Len(lines.val) |-> KeyFn(k, lines.val[i]).val])

---------------------------------------------------------------------------
(* Row transformations *)

head_map(lines) == Range0(0, lines)

\* head that builds the view whatever lines is
head_unguarded(v, lines) == LineReorder(v, head_map(lines))

\* DataFrame::head
head(v, lines) ==
    IF lines < len(v) THEN LineReorder(v, head_map(lines)) ELSE v

tail_map_off(length, lines) == Range0(0, lines)
tail_map(length, lines) == Range0(length - lines, length)

tail(v, lines) ==
    IF lines < len(v) THEN LineReorder(v, tail_map(len(v), lines)) ELSE v

range_map_off(start, end) == Range0(start, end + 1)
range_map(start, end) == Range0(start, end)

range_unchecked(v, start, end) ==
    Ok(LineReorder(v, range_map(start, end)))
range(v, start, end) ==
    IF ~(start <= end) THEN Panic("assertion failed: start <= end")
    ELSE IF ~(end <= len(v)) THEN Panic("assertion failed: end <= self.len()")
    ELSE Ok(LineReorder(v, range_map(start, end)))

\* the comparison of sort_by_key: f(a).cmp(&f(b)) == Less
is_less_or_equal(a, b) == a <= b
is_less(a, b) == a < b

\* insertion of index x into the sorted prefix s, scanning from its end:
\* [seq, cmps] with cmps the comparisons made
RECURSIVE insert_tail(_, _, _)
insert_tail(s, x, keys) ==
    IF s = <<>> THEN [seq |-> <<x>>, cmps |-> 0]
    ELSE LET prev == s[Len(s)] IN
         IF is_less(keys[x + 1], keys[prev + 1])
         THEN LET r == insert_tail(SubSeq(s, 1, Len(s) - 1), x, keys) IN
              [seq |-> Append(r.seq, prev), cmps |-> r.cmps + 1]
         ELSE [seq |-> Append(s, x), cmps |-> 1]

\* the stable sort of the index map 0..n by key: [seq, cmps]
RECURSIVE insertion_sort(_, _)
insertion_sort(n, keys) ==
    IF n = 0 THEN [seq |-> <<>>, cmps |-> 0]
    ELSE LET r == insertion_sort(n - 1, keys)
             t == insert_tail(r.seq, n - 1, keys)
         IN [seq |-> t.seq, cmps |-> r.cmps + t.cmps]

\* calls of key_gen were the keys computed once per row and cached
key_gen_calls_cached(n, cmps) == n

\* calls of key_gen made by index_map.sort_by_key over n rows: the key is
\* computed for both sides of every comparison
key_gen_calls(n, cmps) == 2 * cmps

\* DataFrame::sort with key_gen = KeyFn(k, _); every comparison calls
\* key_gen on both of its sides, and fewer than two rows are never compared
sort(v, k) ==
    LET keys == KeysOf(v, k) IN
    IF len(v) >= 2 /\ keys.panic THEN keys
    ELSE LET r == insertion_sort(len(v), IF len(v) >= 2 THEN keys.val ELSE <<>>) IN
         Ok([df |-> LineReorder(v, r.seq), key_calls |-> key_gen_calls(len(v), r.cmps)])

\* DataFrame::filter with filter = PredFn(k, c, _)
RECURSIVE filter_map(_, _, _)
filter_map(keys, c, i) ==
    IF i > Len(keys) THEN <<>>
    ELSE (IF keys[i] = c THEN <<i - 1>> ELSE <<>>) \o filter_map(keys, c, i + 1)

filter(v, k, c) ==
    LET keys == KeysOf(v, k) IN
    IF keys.panic THEN keys
    ELSE Ok(LineReorder(v, filter_map(keys.val, c, 1)))

---------------------------------------------------------------------------
(* Column transformations *)

\* DataFrameColumnIndex::get_usize: a usize is taken as it is, a name is
\* searched through the header iterator (first match), which asserts that
\* every name it passes exists
find_name_or_len(v, name, j) ==
    IF \E i \in j..(num_columns(v) - 1) :
          get_on_header(v, i).some /\ get_on_header(v, i).val = name
    THEN Ok(CHOOSE i \in j..(num_columns(v) - 1) :
               /\ get_on_header(v, i).some /\ get_on_header(v, i).val = name
               /\ \A h \in j..(i - 1) :
                     ~(get_on_header(v, h).some /\ get_on_header(v, h).val = name))
    ELSE Ok(num_columns(v))
RECURSIVE find_name(_, _, _)
find_name(v, name, j) ==
    IF j >= num_columns(v)
    THEN Panic("index out of Bound header")
    ELSE LET item == get_on_header(v, j) IN
         IF ~item.some THEN Panic("assertion failed: item.is_some()")
         ELSE IF item.val = name THEN Ok(j)
         ELSE find_name(v, name, j + 1)

get_usize(index, v) ==
    IF index.by = "usize" THEN Ok(index.usize) ELSE find_name(v, index.name, 0)

\* (0..num_columns).filter(|index| *index != index_to_remove)
RECURSIVE drop_map(_, _, _)
drop_map(n, index_to_remove, j) ==
    IF j >= n THEN <<>>
    ELSE (IF j # index_to_remove THEN <<j>> ELSE <<>>)
         \o drop_map(n, index_to_remove, j + 1)

drop_column(v, index) ==
    LET index_to_remove == get_usize(index, v) IN
    IF index_to_remove.panic THEN index_to_remove
    ELSE Ok(ColumnReorder(v, drop_map(num_columns(v), index_to_remove.val, 0)))

drop_all_column_except(v, indizes) ==
    IF \E i \in 1..Len(indizes) : get_usize(indizes[i], v).panic
    THEN LET i == CHOOSE i \in 1..Len(indizes) :
                      /\ get_usize(indizes[i], v).panic
                      /\ \A h \in 1..(i - 1) : ~get_usize(indizes[h], v).panic
         IN get_usize(indizes[i], v)
    ELSE Ok(ColumnReorder(v, [i \in 1..Len(indizes) |-> get_usize(indizes[i], v).val]))

---------------------------------------------------------------------------
(* Grouping *)

\* the buckets of group_by: map.entry(key).or_default().push(i) for every
\* row in order; a bucket is [key, index_map]
bucket_first_only(keys, key) ==
    LET i == CHOOSE i \in 1..Len(keys) :
                 keys[i] = key /\ \A h \in 1..(i - 1) : keys[h] # key
    IN <<i - 1>>
bucket(keys, key) == filter_map(keys, key, 1)

Buckets(keys) ==
    {[key |-> keys[i], index_map |-> bucket(keys, keys[i])] : i \in 1..Len(keys)}

\* the orders in which a HashMap can hand out its entries
Orders(S) ==
    {o \in [1..Cardinality(S) -> S] : \A i, j \in 1..Cardinality(S) : i # j => o[i] # o[j]}

\* map.sort_by_key(|(_g, vec)| vec[0]), a stable sort of the drained entries
sort_by_first(drained) ==
    LET firsts == [i \in 1..Len(drained) |-> drained[i].index_map[1]]
        order == insertion_sort(Len(drained), firsts).seq
    IN [i \in 1..Len(drained) |-> drained[order[i] + 1]]

\* the Vec handed to Groups::new, for one drain order of the HashMap
group_by(v, k, drained) ==
    LET sorted == sort_by_first(drained) IN
    [i \in 1..Len(sorted) |->
        [key |-> sorted[i].key, df |-> LineReorder(v, sorted[i].index_map)]]

\* Groups::new: the groups are kept in a HashMap keyed by the group key
Groups_new(list) == {list[i] : i \in 1..Len(list)}

\* Groups::iter: self.groups.iter(), in the order the HashMap hands out
Groups_iter(g) == Orders(g)

---------------------------------------------------------------------------
(* Materialisation: From<DataFrame> for BaseDataFrame *)

\* the rows of v as decoded cells, through iter() and Line::iter
Rows(v) ==
    LET lines == iter(v) IN
    IF lines.panic THEN lines
    ELSE IF \E i \in 1..Len(lines.val) : LineIter(lines.val[i]).panic
    THEN Panic("index out of bounds")
    ELSE Ok([i \in 1..Len(lines.val) |-> LineIter(lines.val[i]).val])

into_base_split_storage(v, unique) ==
    IF unique /\ v.kind = "Base" THEN Ok(v.df)
    ELSE LET names == header(v) IN
         IF names.panic THEN names
         ELSE LET rows == Rows(v) IN
              IF rows.panic THEN rows
              ELSE LET h == InternHeader(names.val, <<>>)
                       d == InternRows(rows.val, <<>>)
                   IN Ok(BaseDataFrame(h.string_storage \o d.string_storage,
                                       h.header, d.data))
\* unique: Arc::try_unwrap succeeds (strong count 1)
into_base(v, unique) ==
    IF unique /\ v.kind = "Base" THEN Ok(v.df)
    ELSE LET names == header(v) IN
         IF names.panic THEN names
         ELSE LET rows == Rows(v) IN
              IF rows.panic THEN rows
              ELSE Ok(BuildBase(names.val, rows.val))

---------------------------------------------------------------------------
(* Appends on a base table *)

\* the header names of a base table
BaseHeader(base) ==
    [j \in 1..Len(base.header) |-> Slice(base.string_storage, base.header[j])]

\* self.data.push(line)
push_line(base, line) ==
    LET r == InternAll(line, base.string_storage) IN
    [base EXCEPT !.string_storage = r.string_storage,
                 !.data = Append(base.data, r.inners)]

RECURSIVE push_lines(_, _)
push_lines(base, lines) ==
    IF lines = <<>> THEN [panic |-> FALSE, base |-> base]
    ELSE push_lines(push_line(base, Head(lines)), Tail(lines))

\* append_line: [panic, base]
append_line(base, line) ==
    IF Len(base.header) # Len(line)
    THEN [panic |-> TRUE, msg |-> "assertion failed: left == right", base |-> base]
    ELSE [panic |-> FALSE, base |-> push_line(base, line)]

\* append_lines: lines.for_each(|line| self.append_line(line))
RECURSIVE append_lines(_, _)
append_lines(base, lines) ==
    IF lines = <<>> THEN [panic |-> FALSE, base |-> base]
    ELSE LET first == append_line(base, Head(lines)) IN
         IF first.panic THEN first ELSE append_lines(first.base, Tail(lines))

\* append_data_frame: the headers are compared, then all rows are moved over
append_data_frame(base, other) ==
    IF BaseHeader(base) # BaseHeader(other)
    THEN [panic |-> TRUE, msg |-> "assertion failed: left == right", base |-> base]
    ELSE push_lines(base, Rows(Base(other)).val)

---------------------------------------------------------------------------
(* Ingestion: the literal parsers behind Data::from(&str) *)

Boolean(b) == [tag |-> "Boolean", bool |-> b]
\* an f32 read from a decimal literal, kept as its sign and its decimal
\* digits without leading integer zeros and trailing fractional zeros (f32
\* rounding is not modelled)
Float(neg, int, frac) == [tag |-> "Float", neg |-> neg, int |-> int, frac |-> frac]
Vec2D(x, y) == [tag |-> "Vec2D", x |-> x, y |-> y]
Date(text) == [tag |-> "Date", date |-> text]

I32_MAX == 2147483647
I32_MIN == -I32_MAX - 1

Digits == <<"0", "1", "2", "3", "4", "5", "6", "7", "8", "9">>
IsDigit(c) == \E i \in 1..10 : Digits[i] = c
DigitVal(c) == (CHOOSE i \in 1..10 : Digits[i] = c) - 1
AllDigits(s) == \A i \in 1..Len(s) : IsDigit(s[i])

HasSign(s) == s # <<>> /\ s[1] \in {"+", "-"}
Unsigned(s) == IF HasSign(s) THEN Tail(s) ELSE s
IsNegative(s) == s # <<>> /\ s[1] = "-"

\* 0-based position of the first c in s at or after from, or Len(s) when
\* there is none
RECURSIVE Position(_, _, _)
Position(s, c, from) ==
    IF from >= Len(s) THEN Len(s)
    ELSE IF s[from + 1] = c THEN from ELSE Position(s, c, from + 1)

\* bool::from_str
bool_from_str(s) ==
    IF s = <<"t", "r", "u", "e">> THEN Some(TRUE)
    ELSE IF s = <<"f", "a", "l", "s", "e">> THEN Some(FALSE)
    ELSE None

\* the digits of an i32 literal folded left to right with checked_mul and
\* checked_add (checked_sub for a negative literal): None on overflow
RECURSIVE checked_digits(_, _, _)
checked_digits(s, negative, acc) ==
    IF s = <<>> THEN Some(acc)
    ELSE LET d == DigitVal(Head(s))
             q == I32_MAX \div 10
             r == I32_MAX % 10
         IN IF negative
            THEN IF acc < -q \/ (acc = -q /\ d > r + 1) THEN None
                 ELSE checked_digits(Tail(s), negative, acc * 10 - d)
            ELSE IF acc > q \/ (acc = q /\ d > r) THEN None
                 ELSE checked_digits(Tail(s), negative, acc * 10 + d)

\* i32::from_str: an optional sign and at least one digit; a value outside
\* the i32 range is an error
i32_from_str(s) ==
    LET u == Unsigned(s) IN
    IF u = <<>> \/ ~AllDigits(u) THEN None
    ELSE checked_digits(u, IsNegative(s), 0)

RECURSIVE strip_leading_zeros(_)
strip_leading_zeros(s) ==
    IF s # <<>> /\ s[1] = "0" THEN strip_leading_zeros(Tail(s)) ELSE s

RECURSIVE strip_trailing_zeros(_)
strip_trailing_zeros(s) ==
    IF s # <<>> /\ s[Len(s)] = "0"
    THEN strip_trailing_zeros(SubSeq(s, 1, Len(s) - 1)) ELSE s

\* f32::from_str on decimal literals: an optional sign, digits with at most
\* one point, at least one digit on one side of it.  Exponents and the words
\* inf / nan are not part of any text the model reads.
f32_from_parts(negative, int, frac) ==
    IF ~AllDigits(int) \/ ~AllDigits(frac) \/ Len(int) + Len(frac) = 0
    THEN None
    ELSE Some(Float(negative, strip_leading_zeros(int), strip_trailing_zeros(frac)))

f32_from_unsigned(negative, u, dot) ==
    f32_from_parts(negative, SubSeq(u, 1, dot), SubSeq(u, dot + 2, Len(u)))

f32_from_str(s) ==
    f32_from_unsigned(IsNegative(s), Unsigned(s), Position(Unsigned(s), ".", 0))

\* DateTime::from_str: a timestamp literal carries a time of day with
\* colons; the model keeps the text of such a literal undecoded
date_from_str(s) ==
    IF Position(s, ":", 0) < Len(s) THEN Some(s) ELSE None

\* string.split(' ')
RECURSIVE split(_, _)
split(s, c) ==
    IF Position(s, c, 0) = Len(s) THEN <<s>>
    ELSE <<SubSeq(s, 1, Position(s, c, 0))>>
         \o split(SubSeq(s, Position(s, c, 0) + 2, Len(s)), c)

\* the Vec2D branch with the two coordinates exchanged
vec2d_from_floats_swapped(x, y) ==
    IF x.some /\ y.some THEN Some(Vec2D(y.val, x.val)) ELSE None

\* the Vec2D branch of Data::from: exactly two parts, both floats
vec2d_from_floats(x, y) ==
    IF x.some /\ y.some THEN Some(Vec2D(x.val, y.val)) ELSE None

vec2d_from_parts(parts) ==
    IF Len(parts) # 2 THEN None
    ELSE vec2d_from_floats(f32_from_str(parts[1]), f32_from_str(parts[2]))

vec2d_from_str(s) == vec2d_from_parts(split(s, " "))

\* the value of the first parser that accepted the text, else the text
RECURSIVE first_match(_, _)
first_match(parsed, string) ==
    IF parsed = <<>> THEN String(string)
    ELSE IF Head(parsed).some THEN Head(parsed).val
    ELSE first_match(Tail(parsed), string)

as_boolean(parsed) == IF parsed.some THEN Some(Boolean(parsed.val)) ELSE None
as_integer(parsed) == IF parsed.some THEN Some(Integer(parsed.val)) ELSE None
as_date(parsed) == IF parsed.some THEN Some(Date(parsed.val)) ELSE None

\* impl From<&str> for Data, with the float parser tried before the integer
\* parser
Data_from_float_first(string) ==
    first_match(<<as_boolean(bool_from_str(string)),
                  f32_from_str(string),
                  as_integer(i32_from_str(string)),
                  as_date(date_from_str(string)),
                  vec2d_from_str(string)>>, string)

\* impl From<&str> for Data: bool, i32, f32, DateTime, Vec2D are tried in
\* this order and the first parser that accepts the text wins
Data_from(string) ==
    first_match(<<as_boolean(bool_from_str(string)),
                  as_integer(i32_from_str(string)),
                  f32_from_str(string),
                  as_date(date_from_str(string)),
                  vec2d_from_str(string)>>, string)

---------------------------------------------------------------------------
(* Ingestion: the tokenizer ChunkIter and the readers built on it *)

\* (opener, closer) pairs
GROUPING_SYMBOLE ==
    << <<"(", ")">>, <<"{", "}">>, <<"<", ">">>, <<"[", "]">>,
       <<"\"", "\"">>, <<"'", "'">> >>

IsWhitespace(c) == c \in {" ", "\t"}

\* str::trim_start
RECURSIVE trim_start(_)
trim_start(s) ==
    IF s # <<>> /\ IsWhitespace(s[1]) THEN trim_start(Tail(s)) ELSE s

\* &s[a..b]: a range that runs backwards or past the end panics
str_slice(s, a, b) ==
    IF a > b THEN Panic("slice index starts after it ends")
    ELSE IF b > Len(s) THEN Panic("slice index out of range")
    ELSE Ok(SubSeq(s, a + 1, b))

\* GROUPING_SYMBOLE.iter().find(|(start, _end)| *start == first)
find_grouping(first) ==
    LET S == {i \in 1..Len(GROUPING_SYMBOLE) : GROUPING_SYMBOLE[i][1] = first} IN
    IF S = {} THEN None
    ELSE Some(GROUPING_SYMBOLE[CHOOSE i \in S : \A j \in S : i <= j][2])

\* one call of ChunkIter::next on the remaining text: a panic, or the item
\* (None at the end) and the text left.  The positions are found in the
\* trimmed text and applied to the remaining text as it stands; peek() does
\* not consume the first character, so both searches start at it.
RECURSIVE ChunkIter_next(_, _)
RECURSIVE collect(_, _)

\* the plain token up to the separator at end_index, or the whole rest
next_plain(string, start_index, end_index, trimed_len) ==
    IF end_index < trimed_len
    THEN Ok([item |-> Some(Data_from(SubSeq(string, start_index + 1, end_index))),
             string |-> SubSeq(string, end_index + 2, Len(string))])
    ELSE Ok([item |-> Some(Data_from(SubSeq(string, start_index + 1, Len(string)))),
             string |-> <<>>])

\* the Vector of the cells between the grouping symbols
next_vector(string, cells, end_index) ==
    IF cells.panic THEN cells
    ELSE Ok([item |-> Some(Vector(cells.val)),
             string |-> SubSeq(string, end_index + 2, Len(string))])

next_inner(string, inner, end_index, seperator) ==
    IF inner.panic THEN inner
    ELSE next_vector(string, collect(inner.val, seperator), end_index)

\* the group closed by the first closer at end_index of the trimmed text
next_group(string, start_index, end_index, trimed_len, seperator) ==
    IF end_index = trimed_len
    THEN Panic("Line contains a start but no matching end grouping symbole")
    ELSE next_inner(string, str_slice(string, start_index + 1, end_index),
                    end_index, seperator)

next_first(string, trimed, start_index, end, seperator) ==
    IF end.some
    THEN next_group(string, start_index, Position(trimed, end.val, start_index),
                    Len(trimed), seperator)
    ELSE next_plain(string, start_index, Position(trimed, seperator, start_index),
                    Len(trimed))

next_trimed(string, trimed, seperator) ==
    IF trimed = <<>> THEN Ok([item |-> None, string |-> string])
    ELSE next_first(string, trimed, 0, find_grouping(trimed[1]), seperator)

ChunkIter_next(string, seperator) ==
    next_trimed(string, trim_start(string), seperator)

\* Iterator::collect over a ChunkIter: next() until None
collect_rest(item, rest) ==
    IF rest.panic THEN rest ELSE Ok(<<item>> \o rest.val)

collect_next(r, seperator) ==
    IF r.panic THEN r
    ELSE IF ~r.val.item.some THEN Ok(<<>>)
    ELSE collect_rest(r.val.item.val, collect(r.val.string, seperator))

collect(string, seperator) ==
    collect_next(ChunkIter_next(string, seperator), seperator)

\* outcomes of the readers: a value, a returned error, or a panic
Done(x) == [status |-> "ok", val |-> x]
Err(e) == [status |-> "err", error |-> e]
Abort(msg) == [status |-> "panic", msg |-> msg]

\* try_build_header: every header token has to decode to a String
RECURSIVE try_build_header(_)
header_rest(name, rest) ==
    IF rest.status # "ok" THEN rest ELSE Done(<<name>> \o rest.val)

try_build_header(raw_header) ==
    IF raw_header = <<>> THEN Done(<<>>)
    ELSE IF Head(raw_header).tag # "String"
    THEN Err([message |-> "File has no valid Header"])
    ELSE header_rest(Head(raw_header).str, try_build_header(Tail(raw_header)))

\* create_error, with the line reported as the enumerate index itself
create_error_zero_based(line_index, line_data, names) ==
    [message |-> "Line _ contrains _ entries than the header",
     line |-> line_index,
     id |-> IF Len(line_data) > Len(names) THEN "more" ELSE "less",
     line_len |-> Len(line_data),
     header_len |-> Len(names)]

\* create_error: the numbers the message is formatted from
create_error(line_index, line_data, names) ==
    [message |-> "Line _ contrains _ entries than the header",
     line |-> line_index + 1,
     id |-> IF Len(line_data) > Len(names) THEN "more" ELSE "less",
     line_len |-> Len(line_data),
     header_len |-> Len(names)]

\* get_data_from_file over the lines numbered i, i + 1, ... by enumerate():
\* the first line of the wrong length ends the reading with an error
RECURSIVE get_data_from_file(_, _, _, _)
data_rest(line_data, rest) ==
    IF rest.status # "ok" THEN rest ELSE Done(<<line_data>> \o rest.val)

data_line(names, line_data, lines, i, seperator) ==
    IF line_data.panic THEN Abort(line_data.msg)
    ELSE IF Len(line_data.val) # Len(names)
    THEN Err(create_error(i, line_data.val, names))
    ELSE data_rest(line_data.val,
                   get_data_from_file(names, Tail(lines), i + 1, seperator))

get_data_from_file(names, lines, i, seperator) ==
    IF lines = <<>> THEN Done(<<>>)
    ELSE data_line(names, collect(Head(lines), seperator), lines, i, seperator)

\* BaseDataFrame::from_string over string.lines()
from_string_data(names, data) ==
    IF data.status # "ok" THEN data ELSE Done(BuildBase(names, data.val))

from_string_header(names, lines, seperator) ==
    IF names.status # "ok" THEN names
    ELSE from_string_data(names.val,
                          get_data_from_file(names.val, Tail(lines), 1, seperator))

from_string_raw(raw_header, lines, seperator) ==
    IF raw_header.panic THEN Abort(raw_header.msg)
    ELSE from_string_header(try_build_header(raw_header.val), lines, seperator)

from_string(lines, seperator) ==
    IF lines = <<>> THEN Err([message |-> "String is empty"])
    ELSE from_string_raw(collect(lines[1], seperator), lines, seperator)

\* BaseDataFrame::append_file over reader.lines(): the base is touched only
\* after every line was read
append_file_lines(r) == IF r.panic THEN Abort(r.msg) ELSE Done(r.base)

append_file_data(base, data) ==
    IF data.status # "ok" THEN data
    ELSE append_file_lines(append_lines(base, data.val))

append_file(base, lines, seperator, skip_first_line) ==
    append_file_data(base,
        get_data_from_file(BaseHeader(base),
                           IF skip_first_line /\ lines # <<>> THEN Tail(lines) ELSE lines,
                           IF skip_first_line THEN 1 ELSE 0,
                           seperator))

---------------------------------------------------------------------------
(* Inputs *)

A == <<"a">>
BB == <<"b", "b">>
C == <<"c">>
DD == <<"d", "d">>
ZZ == <<"z", "z">>

\* header names; the third repeats the first (lookup by name takes the
\* first match)
HeaderPool == <<A, BB, A, C, DD>>

\* rows: equal in column 0, different in column 1
RowPool ==
    { <<Integer(1), String(<<"x">>), Vector(<<String(<<"p", "q">>), Integer(3)>>),
        Integer(0), String(<<>>)>>,
      <<Integer(1), String(<<"y", "z">>), Integer(7),
        String(<<"x">>), Integer(2)>> }

Names == {A, BB, ZZ}
KeyVals == {1, 2}

Prefix(s, n) == SubSeq(s, 1, n)

RowSeqs == UNION {[1..n -> RowPool] : n \in 0..MaxRows}

\* the base tables the caller starts from: NumCols columns, up to MaxRows rows
Tables ==
    {BuildBase(Prefix(HeaderPool, NumCols),
               [i \in 1..Len(rows) |-> Prefix(rows[i], NumCols)]) :
        rows \in RowSeqs}

Usize(n) == [by |-> "usize", usize |-> n]
Name(s) == [by |-> "name", name |-> s]

ColumnIndexes == {Usize(n) : n \in 0..NumCols} \cup {Name(s) : s \in Names}

\* projections: one column (the last index is out of range for every table),
\* a swap, a duplicate, and a swap by name
KeepLists ==
    {<<Usize(0)>>, <<Usize(NumCols)>>, <<Usize(1), Usize(0)>>,
     <<Usize(0), Usize(0)>>, <<Name(BB), Name(A)>>}

\* rows offered to the appends: of the header's length, shorter and longer
LinesFor(nc) ==
    {Prefix(r, n) : r \in RowPool, n \in {nc - 1, nc, nc + 1}}

---------------------------------------------------------------------------
(* The state machine *)

\* the variables of the other specifications, at rest
beside == <<mem, held, line_iter, chunk_iter>>

Idle ==
    /\ mem = <<>>
    /\ held = None
    /\ line_iter = None
    /\ chunk_iter = None

Init ==
    /\ df \in {Base(t) : t \in Tables}
    /\ groups = {}
    /\ last = [op |-> "init", status |-> "ok"]
    /\ Idle

\* the caller still holds df and the process is alive
Live == last.status = "ok"

CanGrow == Live /\ Depth(df) < MaxDepth

CallHead(lines) ==
    /\ CanGrow
    /\ UNCHANGED beside
    /\ df' = head(df, lines)
    /\ last' = [op |-> "head", status |-> "ok", in |-> df, lines |-> lines]
    /\ UNCHANGED groups

CallTail(lines) ==
    /\ CanGrow
    /\ UNCHANGED beside
    /\ df' = tail(df, lines)
    /\ last' = [op |-> "tail", status |-> "ok", in |-> df, lines |-> lines]
    /\ UNCHANGED groups

CallRange(start, end) ==
    /\ CanGrow
    /\ UNCHANGED beside
    /\ LET r == range(df, start, end) IN
       /\ df' = IF r.panic THEN df ELSE r.val
       /\ last' = [op |-> "range", status |-> IF r.panic THEN "panic" ELSE "ok",
                   in |-> df, start |-> start, end |-> end,
                   msg |-> IF r.panic THEN r.msg ELSE ""]
    /\ UNCHANGED groups

CallSort(k) ==
    /\ CanGrow
    /\ UNCHANGED beside
    /\ k < num_columns(df)
    /\ LET r == sort(df, k) IN
       /\ df' = IF r.panic THEN df ELSE r.val.df
       /\ last' = [op |-> "sort", status |-> IF r.panic THEN "panic" ELSE "ok",
                   in |-> df, k |-> k,
                   key_calls |-> IF r.panic THEN 0 ELSE r.val.key_calls]
    /\ UNCHANGED groups

CallFilter(k, c) ==
    /\ CanGrow
    /\ UNCHANGED beside
    /\ k < num_columns(df)
    /\ LET r == filter(df, k, c) IN
       /\ df' = IF r.panic THEN df ELSE r.val
       /\ last' = [op |-> "filter", status |-> IF r.panic THEN "panic" ELSE "ok",
                   in |-> df, k |-> k, c |-> c]
    /\ UNCHANGED groups

CallDropColumn(index) ==
    /\ CanGrow
    /\ UNCHANGED beside
    /\ LET r == drop_column(df, index) IN
       /\ df' = IF r.panic THEN df ELSE r.val
       /\ last' = [op |-> "drop_column", status |-> IF r.panic THEN "panic" ELSE "ok",
                   in |-> df, index |-> index,
                   msg |-> IF r.panic THEN r.msg ELSE ""]
    /\ UNCHANGED groups

CallDropAllColumnExcept(indizes) ==
    /\ CanGrow
    /\ UNCHANGED beside
    /\ LET r == drop_all_column_except(df, indizes) IN
       /\ df' = IF r.panic THEN df ELSE r.val
       /\ last' = [op |-> "drop_all_column_except",
                   status |-> IF r.panic THEN "panic" ELSE "ok",
                   in |-> df, indizes |-> indizes]
    /\ UNCHANGED groups

\* group_by consumes the handle: afterwards the caller holds the Groups only
CallGroupBy(k) ==
    /\ CanGrow
    /\ UNCHANGED beside
    /\ k < num_columns(df)
    /\ LET keys == KeysOf(df, k) IN
       IF keys.panic
       THEN /\ last' = [op |-> "group_by", status |-> "panic", in |-> df, k |-> k]
            /\ UNCHANGED <<df, groups>>
       ELSE \E drained \in Orders(Buckets(keys.val)) :
               LET list == group_by(df, k, drained) IN
               /\ groups' = Groups_new(list)
               /\ last' = [op |-> "group_by", status |-> "consumed", in |-> df,
                           k |-> k, keys |-> keys.val, list |-> list]
               /\ UNCHANGED df

IterGroups ==
    /\ last.op = "group_by"
    /\ UNCHANGED beside
    /\ last.status = "consumed"
    /\ \E order \in Groups_iter(groups) :
          last' = [op |-> "groups_iter", status |-> "consumed", in |-> last.in,
                   k |-> last.k, keys |-> last.keys, order |-> order]
    /\ UNCHANGED <<df, groups>>

\* BaseDataFrame::from(df): the handle is consumed and the caller holds the
\* base table, kept here wrapped as a Base view.  unique says whether no
\* other clone of the handle is alive (Arc::try_unwrap succeeds)
CallIntoBase(unique) ==
    /\ Live
    /\ UNCHANGED beside
    /\ LET r == into_base(df, unique) IN
       /\ df' = IF r.panic THEN df ELSE Base(r.val)
       /\ last' = [op |-> "into_base",
                   status |-> IF r.panic THEN "panic" ELSE "consumed",
                   in |-> df, unique |-> unique]
    /\ UNCHANGED groups

\* the appends need the base table itself
CanAppend(n) == Live /\ df.kind = "Base" /\ Len(df.df.data) + n <= MaxRows

Appended(op, r, arg) ==
    /\ df' = Base(r.base)
    /\ UNCHANGED beside
    /\ last' = [op |-> op, status |-> IF r.panic THEN "panic" ELSE "ok",
                in |-> df, arg |-> arg]
    /\ UNCHANGED groups

CallAppendLine(line) ==
    /\ CanAppend(1)
    /\ Appended("append_line", append_line(df.df, line), line)

CallAppendLines(lines) ==
    /\ CanAppend(Len(lines))
    /\ Appended("append_lines", append_lines(df.df, lines), lines)

CallAppendDataFrame(other) ==
    /\ CanAppend(Len(other.data))
    /\ Appended("append_data_frame", append_data_frame(df.df, other), other)

Next ==
    \/ \E n \in 0..MaxRows : CallHead(n)
    \/ \E n \in 0..MaxRows : CallTail(n)
    \/ \E start, end \in 0..MaxRows : CallRange(start, end)
    \/ \E k \in 0..(NumCols - 1) : CallSort(k)
    \/ \E k \in 0..(NumCols - 1), c \in KeyVals : CallFilter(k, c)
    \/ \E index \in ColumnIndexes : CallDropColumn(index)
    \/ \E indizes \in KeepLists : CallDropAllColumnExcept(indizes)
    \/ \E k \in 0..(NumCols - 1) : CallGroupBy(k)
    \/ IterGroups
    \/ \E unique \in BOOLEAN : CallIntoBase(unique)
    \/ \E line \in LinesFor(num_columns(df)) : CallAppendLine(line)
    \/ \E l1, l2 \in LinesFor(num_columns(df)) : CallAppendLines(<<l1, l2>>)
    \/ \E other \in {t \in Tables : Len(t.data) = 1} : CallAppendDataFrame(other)

Spec == Init /\ [][Next]_vars

---------------------------------------------------------------------------
(* What a reader sees of a view or a base table *)

\* the cells of logical row i of v
RowAt(v, i) ==
    LET line == get(v, i) IN IF line.some THEN LineIter(line.val) ELSE None

\* the decoded rows of a base table, read from its storage
BaseRows(base) ==
    [i \in 1..Len(base.data) |->
        [j \in 1..Len(base.data[i]) |-> as_data(base.data[i][j], base.string_storage)]]

\* seq without the element at 0-based position k
RemoveAt(seq, k) ==
    [i \in 1..(Len(seq) - 1) |-> IF i <= k THEN seq[i] ELSE seq[i + 1]]

RECURSIVE SumLen(_)
SumLen(S) ==
    IF S = {} THEN 0
    ELSE LET g == CHOOSE g \in S : TRUE IN len(g.df) + SumLen(S \ {g})

Elems(seq) == {seq[i] : i \in 1..Len(seq)}

---------------------------------------------------------------------------
(* Sharing: handles of several readers over base tables kept in heap cells *)

\* what a reader gets through a view
Reading(v) == [len |-> len(v), header |-> header(v), rows |-> Rows(v)]

\* the Base node of a handle, named by the heap cell that holds its table
Ref(id) == [kind |-> "Ref", id |-> id]

RECURSIVE Leaf(_)
Leaf(h) == IF h.kind = "Ref" THEN h.id ELSE Leaf(h.df)

\* the view a handle denotes while the heap is m
RECURSIVE Deref(_, _)
Deref(h, m) ==
    IF h.kind = "Ref" THEN Base(m[h.id]) ELSE [h EXCEPT !.df = Deref(h.df, m)]

\* the handle of a view made from the view of handle h: h itself when the
\* transformation handed back a clone, else the new node over h
Lift(h, m, out) == IF out = Deref(h, m) THEN h ELSE [out EXCEPT !.df = h]

\* the transformations, by name and arguments; sort hands back the view
Transform(op, v) ==
    CASE op.name = "clone" -> Ok(v)
      [] op.name = "head" -> Ok(head(v, op.lines))
      [] op.name = "tail" -> Ok(tail(v, op.lines))
      [] op.name = "range" -> range(v, op.start, op.end)
      [] op.name = "sort" ->
            LET r == sort(v, op.k) IN IF r.panic THEN r ELSE Ok(r.val.df)
      [] op.name = "filter" -> filter(v, op.k, op.c)
      [] op.name = "drop_column" -> drop_column(v, op.index)
      [] op.name = "drop_all_column_except" ->
            drop_all_column_except(v, op.indizes)

ShareOps ==
    {[name |-> "head", lines |-> 1], [name |-> "tail", lines |-> 1],
     [name |-> "range", start |-> 0, end |-> 1], [name |-> "sort", k |-> 1],
     [name |-> "filter", k |-> 0, c |-> 1],
     [name |-> "drop_column", index |-> Usize(0)],
     [name |-> "drop_all_column_except", indizes |-> <<Usize(1), Usize(0)>>]}

\* what the second reader keeps: a clone of the handle or a view made of one
KeepOps == {[name |-> "clone"], [name |-> "tail", lines |-> 1],
            [name |-> "drop_column", index |-> Usize(1)]}

ShareDepth == MaxDepth - 1

\* the handles alive besides the caller's that reach heap cell id: each
\* holds, directly or through its ancestors, a strong reference to the node
other_owners(id) ==
    (IF held.some /\ Leaf(held.val.view) = id THEN 1 ELSE 0)
    + Cardinality({g \in groups : Leaf(g.df) = id})

\* Arc::try_unwrap handing out the table although the node is shared
try_unwrap_shared(h, others) == h.kind = "Ref"

\* Arc::try_unwrap(df.inner) is Ok(Base) only for a Base node nobody else
\* references
try_unwrap(h, others) == h.kind = "Ref" /\ others = 0

\* text lines: cells joined by the separator
RECURSIVE Join(_, _)
Join(cells, seperator) ==
    IF cells = <<>> THEN <<>>
    ELSE IF Len(cells) = 1 THEN cells[1]
    ELSE cells[1] \o <<seperator>> \o Join(Tail(cells), seperator)

\* a file line with n cells: an integer, then words
FileLine(n) == Join([j \in 1..n |-> IF j = 1 THEN <<"1">> ELSE <<"w">>], ",")

\* files offered to append_file on a table of nc columns: lines of the
\* header's length, and a line that is one cell short
FilesFor(nc) ==
    {<<>>, <<FileLine(nc)>>, <<FileLine(nc - 1)>>,
     <<FileLine(nc), FileLine(nc)>>, <<FileLine(nc), FileLine(nc - 1)>>}

InitShare ==
    /\ mem \in {<<t>> : t \in Tables}
    /\ df = Ref(1)
    /\ held = None
    /\ groups = {}
    /\ last = [op |-> "init", status |-> "ok"]
    /\ line_iter = None
    /\ chunk_iter = None

ShareCanGrow ==
    /\ Live
    /\ last.op # "append_file"
    /\ Depth(Deref(df, mem)) < ShareDepth

\* a transformation of the caller's handle
ShTransform(op) ==
    /\ ShareCanGrow
    /\ op.name \in {"sort", "filter"} => op.k < num_columns(Deref(df, mem))
    /\ LET r == Transform(op, Deref(df, mem)) IN
       /\ df' = IF r.panic THEN df ELSE Lift(df, mem, r.val)
       /\ last' = [op |-> op.name, status |-> IF r.panic THEN "panic" ELSE "ok",
                   in |-> df]
    /\ UNCHANGED <<groups, mem, held, line_iter, chunk_iter>>

\* the second reader takes a clone of the caller's handle, or a view made
\* from one, and reads it
ShKeep(op) ==
    /\ ShareCanGrow
    /\ held = None
    /\ LET r == Transform(op, Deref(df, mem)) IN
       /\ ~r.panic
       /\ held' = Some([view |-> Lift(df, mem, r.val), seen |-> Reading(r.val)])
    /\ last' = [op |-> "keep", status |-> "ok", in |-> df]
    /\ UNCHANGED <<df, groups, mem, line_iter, chunk_iter>>

\* group_by on the caller's handle: every group holds a clone of it
ShGroupBy(k) ==
    /\ ShareCanGrow
    /\ k < num_columns(Deref(df, mem))
    /\ LET keys == KeysOf(Deref(df, mem), k) IN
       /\ ~keys.panic
       /\ \E drained \in Orders(Buckets(keys.val)) :
             LET list == group_by(df, k, drained) IN
             /\ groups' = Groups_new(list)
             /\ last' = [op |-> "group_by", status |-> "consumed", in |-> df,
                         k |-> k, keys |-> keys.val, list |-> list]
    /\ UNCHANGED <<df, mem, held, line_iter, chunk_iter>>

\* DataFrame::append_file: the handle is materialised (the table is moved
\* out of its cell when nobody else references the node, else copied), the
\* file is appended to that table in place, and the table is wrapped again
ShAppended(moved, r) ==
    /\ last' = [op |-> "append_file", status |-> r.status, in |-> df,
                moved |-> moved]
    /\ IF r.status = "ok"
       THEN /\ df' = Ref(IF moved THEN df.id ELSE Len(mem) + 1)
            /\ mem' = IF moved THEN [mem EXCEPT ![df.id] = r.val]
                      ELSE Append(mem, r.val)
       ELSE UNCHANGED <<df, mem>>

ShMaterialised(moved, base, lines, skip_first_line) ==
    IF base.panic
    THEN /\ last' = [op |-> "append_file", status |-> "panic", in |-> df,
                     moved |-> moved]
         /\ UNCHANGED <<df, mem>>
    ELSE ShAppended(moved, append_file(base.val, lines, ",", skip_first_line))

ShUnwrapped(moved, lines, skip_first_line) ==
    ShMaterialised(moved,
                   IF moved THEN Ok(mem[df.id]) ELSE into_base(Deref(df, mem), FALSE),
                   lines, skip_first_line)

ShAppendFile(lines, skip_first_line) ==
    /\ Live
    /\ len(Deref(df, mem)) + Len(lines) <= MaxRows
    /\ Len(mem) <= ShareDepth
    /\ ShUnwrapped(try_unwrap(df, other_owners(Leaf(df))), lines, skip_first_line)
    /\ UNCHANGED <<groups, held, line_iter, chunk_iter>>

NextShare ==
    \/ \E op \in ShareOps : ShTransform(op)
    \/ \E op \in KeepOps : ShKeep(op)
    \/ \E k \in 0..1 : ShGroupBy(k)
    \/ \E lines \in FilesFor(num_columns(Deref(df, mem))), skip \in BOOLEAN :
          ShAppendFile(lines, skip)

SpecShare == InitShare /\ [][NextShare]_vars

---------------------------------------------------------------------------
(* Ingestion as a state machine: a ChunkIter stepped call by call, and the
   readers from_string / append_file called on whole texts *)

\* the characters of the generated lines: the separator, a space, one
\* bracket pair, a quote, a digit
Alphabet == {",", " ", "[", "]", "\"", "1"}

\* the lines of the examples: literals of every type, every grouping pair,
\* groups followed by tokens, leading spaces
Examples ==
    {<<"x", ",", "[", "1", " ", "2", "]">>,
     <<"4", "2">>, <<"3", ".", "1", "4">>, <<"t", "r", "u", "e">>,
     <<"f", "a", "l", "s", "e">>, <<"x">>, <<"-", "7">>, <<"1", ".", "0">>,
     <<"1", ".", "5", ".", "1">>,
     <<"2", "1", "4", "7", "4", "8", "3", "6", "4", "7">>,
     <<"2", "1", "4", "7", "4", "8", "3", "6", "4", "8">>,
     <<"4", "2", "9", "4", "9", "6", "7", "2", "9", "7">>,
     <<"-", "2", "1", "4", "7", "4", "8", "3", "6", "4", "8">>,
     <<"-", "2", "1", "4", "7", "4", "8", "3", "6", "4", "9">>,
     <<"9", "9", "9", "9", "9", "9", "9", "9", "9", "9", "9">>,
     <<"1", " ", "2">>, <<"[", "1", " ", "2", "]">>,
     <<"[", "1", ".", "5", " ", "2", "]">>,
     <<"(", "1", ",", "x", ")">>, <<"{", "1", ",", "x", "}">>,
     <<"<", "1", ",", "x", ">">>, <<"[", "1", ",", "x", "]">>,
     <<"\"", "1", ",", "x", "\"">>, <<"'", "1", ",", "x", "'">>,
     <<"(", "1", ")", ",", "x">>, <<"[", "1", ",", "2", "]", ",", "7">>,
     <<" ", "1", ",", "2">>, <<"1", ",", " ", "2">>,
     <<" ", "[", "1", "]">>}

Lines == UNION {[1..n -> Alphabet] : n \in 0..MaxLineLen} \cup Examples

\* the lines of the texts read as files: a header of three names, and rows
\* of three, two and four cells (the row of two numbers is no valid header)
FileLines ==
    {<<"a", ",", "b", ",", "c">>, <<"1", ",", "2", ",", "3">>,
     <<"1", ",", "2">>, <<"1", ",", "2", ",", "3", ",", "4">>}

Texts == UNION {[1..n -> FileLines] : n \in 0..MaxLines}

\* ChunkIter::from_str, with the line it was made for and the items
\* yielded so far
ChunkIter(line, seperator) ==
    [line |-> line, string |-> line, seperator |-> seperator,
     yielded |-> <<>>, state |-> "new"]

InitParse ==
    /\ chunk_iter \in {None} \cup {Some(ChunkIter(line, ",")) : line \in Lines}
    /\ df = None
    /\ groups = {}
    /\ last = [op |-> "init", status |-> "ok"]
    /\ mem = <<>>
    /\ held = None
    /\ line_iter = None

\* the iterator after one call of next() that returned r
Stepped(it, r) ==
    IF r.panic THEN [it EXCEPT !.state = "panic"]
    ELSE IF ~r.val.item.some THEN [it EXCEPT !.state = "end"]
    ELSE [it EXCEPT !.state = "more", !.string = r.val.string,
                    !.yielded = Append(it.yielded, r.val.item.val)]

\* one call of next() on the iterator
ChunkNext ==
    /\ chunk_iter.some
    /\ chunk_iter.val.state \in {"new", "more"}
    /\ chunk_iter' = Some(Stepped(chunk_iter.val,
                                  ChunkIter_next(chunk_iter.val.string,
                                                 chunk_iter.val.seperator)))
    /\ UNCHANGED <<df, groups, last, mem, held, line_iter>>

Read(op, r, text, skip_first_line) ==
    /\ df' = IF r.status = "ok" THEN Some(Base(r.val)) ELSE df
    /\ last' = [op |-> op, status |-> r.status, in |-> df, text |-> text,
                skip_first_line |-> skip_first_line,
                line |-> IF r.status = "err" /\ "line" \in DOMAIN r.error
                         THEN r.error.line ELSE 0]
    /\ UNCHANGED <<groups, mem, held, line_iter, chunk_iter>>

\* DataFrame::from_string
CallFromString(text) ==
    /\ ~chunk_iter.some
    /\ last.op = "init"
    /\ Read("from_string", from_string(text, ","), text, FALSE)

\* DataFrame::append_file on the table just read (nobody else holds it)
CallAppendFile(text, skip_first_line) ==
    /\ ~chunk_iter.some
    /\ last.op = "from_string" /\ last.status = "ok"
    /\ Read("append_file", append_file(df.val.df, text, ",", skip_first_line),
            text, skip_first_line)

NextParse ==
    \/ ChunkNext
    \/ \E text \in Texts : CallFromString(text)
    \/ \E text \in Texts, skip \in BOOLEAN : CallAppendFile(text, skip)

SpecParse == InitParse /\ [][NextParse]_vars

---------------------------------------------------------------------------
(* The row iterator LineIter of a DataFrame, stepped call by call from
   either end *)

\* LineIter::new: the iterator with the log of what its calls returned
LineIter_new(v) == [index |-> 0, end |-> len(v), log |-> <<>>, status |-> "ok"]

\* the iterator after a call from the back (back = TRUE) or the front that
\* read row at and has has_more telling whether a row is left
Advanced(v, it, back, has_more, at) ==
    IF ~has_more
    THEN [it EXCEPT !.log = Append(it.log, [back |-> back, item |-> None])]
    ELSE IF ~get(v, at).some
    THEN [it EXCEPT !.status = "panic"]
    ELSE [it EXCEPT !.log = Append(it.log, [back |-> back, item |-> get(v, at)]),
                    !.index = IF back THEN it.index ELSE it.index + 1,
                    !.end = IF back THEN it.end - 1 ELSE it.end]

\* DoubleEndedIterator::next_back that looks at end only
LineIter_next_back_to_zero(v, it) ==
    Advanced(v, it, TRUE, 0 < it.end, it.end - 1)

\* DoubleEndedIterator::next_back
LineIter_next_back(v, it) ==
    Advanced(v, it, TRUE, it.index < it.end, it.end - 1)

\* Iterator::next
LineIter_next(v, it) ==
    Advanced(v, it, FALSE, it.index < it.end, it.index)

\* Iterator::size_hint / ExactSizeIterator::len
size_hint(it) == it.end - it.index

\* the views iterated: the tables and the views one transformation away
IterViews ==
    {Base(t) : t \in Tables}
    \cup {Transform(op, Base(t)).val :
            t \in {t \in Tables : Len(t.data) >= 1}, op \in ShareOps}

InitIter ==
    /\ df \in IterViews
    /\ line_iter = Some(LineIter_new(df))
    /\ groups = {}
    /\ last = [op |-> "init", status |-> "ok"]
    /\ mem = <<>>
    /\ held = None
    /\ chunk_iter = None

\* calls are made until the iterator has answered None twice
IterCanCall ==
    /\ line_iter.some
    /\ line_iter.val.status = "ok"
    /\ Len(line_iter.val.log) < len(df) + 2

IterNext ==
    /\ IterCanCall
    /\ line_iter' = Some(LineIter_next(df, line_iter.val))
    /\ UNCHANGED <<df, groups, last, mem, held, chunk_iter>>

IterNextBack ==
    /\ IterCanCall
    /\ line_iter' = Some(LineIter_next_back(df, line_iter.val))
    /\ UNCHANGED <<df, groups, last, mem, held, chunk_iter>>

NextIter == IterNext \/ IterNextBack

SpecIter == InitIter /\ [][NextIter]_vars

---------------------------------------------------------------------------
(* Claims *)

\* C1: materialising a Base view of a table T gives a table with the header
\* names and the rows of T, on the cheap path (unique owner) and on the
\* expensive path (another clone alive); the two paths agree in content.
C1_MaterializeRoundTrip ==
    (last.op = "into_base" /\ last.in.kind = "Base") =>
        /\ last.status = "consumed"
        /\ BaseHeader(df.df) = BaseHeader(last.in.df)
        /\ BaseRows(df.df) = BaseRows(last.in.df)
        /\ LET cheap == into_base(last.in, TRUE)
               expensive == into_base(last.in, FALSE)
           IN /\ ~cheap.panic /\ ~expensive.panic
              /\ BaseHeader(cheap.val) = BaseHeader(expensive.val)
              /\ BaseRows(cheap.val) = BaseRows(expensive.val)

C1_Witness ==
    /\ last.op = "into_base" /\ last.in.kind = "Base"
    /\ ~last.unique
    /\ last.status = "consumed"
    /\ Len(last.in.df.data) = MaxRows

\* C2 (as claimed): drop_column(k) of any view v gives v's header without
\* position k and, for every row, v's row without the cell at position k.
C2_DropColumnRows ==
    (/\ last.op = "drop_column" /\ last.status = "ok"
     /\ ~header(last.in).panic /\ ~Rows(last.in).panic
     /\ get_usize(last.index, last.in).val < num_columns(last.in)) =>
        LET k == get_usize(last.index, last.in).val
            rows == Rows(last.in).val
        IN /\ header(df) = Ok(RemoveAt(header(last.in).val, k))
           /\ Rows(df) = Ok([i \in 1..Len(rows) |-> RemoveAt(rows[i], k)])

\* C3: group_by partitions the rows: every row index is in exactly one
\* group, the sizes add up to len(v), a group's rows share its key, groups
\* have different keys, and a group keeps the rows in their order in v.
C3_GroupByPartition ==
    (last.op = "group_by" /\ last.status = "consumed") =>
        LET v == last.in
            keys == last.keys
        IN /\ \A i \in 0..(len(v) - 1) :
                 Cardinality({g \in groups : i \in Elems(g.df.index_map)}) = 1
           /\ SumLen(groups) = len(v)
           /\ \A g \in groups :
                 /\ g.df.kind = "LineReorder" /\ g.df.df = v
                 /\ \A i \in 1..Len(g.df.index_map) :
                       /\ g.df.index_map[i] < len(v)
                       /\ keys[g.df.index_map[i] + 1] = g.key
                       /\ KeyFn(last.k, get(g.df, i - 1).val) = Ok(g.key)
                 /\ \A i, j \in 1..Len(g.df.index_map) :
                       i < j => g.df.index_map[i] < g.df.index_map[j]
           /\ \A g, h \in groups : g # h => g.key # h.key

C3_Witness ==
    /\ last.op = "group_by" /\ last.status = "consumed"
    /\ \E g \in groups : len(g.df) >= 2
    /\ Depth(last.in) >= 1

\* C4 (as claimed): iterating a Groups collection lists the groups in the
\* order of each key's first row in the parent view.
C4_IterFirstOccurrenceOrder ==
    last.op = "groups_iter" =>
        \A i, j \in 1..Len(last.order) :
            i < j => last.order[i].df.index_map[1] < last.order[j].df.index_map[1]

\* C5: sort gives a permutation of the rows of v in non-decreasing key
\* order, and rows with equal keys keep their order in v (stable).
C5_SortStablePermutation ==
    (last.op = "sort" /\ last.status = "ok" /\ ~KeysOf(last.in, last.k).panic) =>
        LET v == last.in
            keys == KeysOf(v, last.k).val
            m == df.index_map
        IN /\ df.kind = "LineReorder" /\ df.df = v
           /\ Len(m) = len(v)
           /\ \A r \in 0..(len(v) - 1) :
                 Cardinality({i \in 1..Len(m) : m[i] = r}) = 1
           /\ \A i \in 1..Len(m) : get(df, i - 1) = get(v, m[i])
           /\ \A i, j \in 1..Len(m) :
                 i < j => /\ keys[m[i] + 1] <= keys[m[j] + 1]
                          /\ (keys[m[i] + 1] = keys[m[j] + 1] => m[i] < m[j])

C5_Witness ==
    /\ last.op = "sort" /\ last.status = "ok"
    /\ len(last.in) >= 2
    /\ LET keys == KeysOf(last.in, last.k).val IN keys[1] = keys[2]
    /\ RowAt(last.in, 0) # RowAt(last.in, 1)

\* C6: head(v, n) and tail(v, n) have length min(n, len(v)); row i of head
\* is v's row i, row i of tail is v's row len(v) - min(n, len(v)) + i; with
\* n >= len(v) both return v itself.
C6_HeadTail ==
    (last.op \in {"head", "tail"}) =>
        LET v == last.in
            n == last.lines
            m == Min(n, len(v))
            off == IF last.op = "head" THEN 0 ELSE len(v) - m
        IN /\ last.status = "ok"
           /\ len(df) = m
           /\ \A i \in 0..(m - 1) : get(df, i) = get(v, off + i)
           /\ \A i \in 0..(m - 1) : RowAt(df, i) = RowAt(v, off + i)
           /\ ~get(df, m).some
           /\ n >= len(v) => df = v

C6_Witness ==
    /\ last.op = "tail"
    /\ last.lines = 1
    /\ len(last.in) = 2
    /\ Depth(last.in) >= 1

\* C7: for 0 <= start <= end <= len(v), range(v, start, end) has length
\* end - start and its row i is v's row start + i.
C7_Range ==
    (last.op = "range" /\ last.start <= last.end /\ last.end <= len(last.in)) =>
        /\ last.status = "ok"
        /\ len(df) = last.end - last.start
        /\ \A i \in 0..(last.end - last.start - 1) :
              /\ get(df, i) = get(last.in, last.start + i)
              /\ RowAt(df, i) = RowAt(last.in, last.start + i)
        /\ ~get(df, last.end - last.start).some

C7_Witness ==
    /\ last.op = "range" /\ last.status = "ok"
    /\ last.start = 1 /\ last.end = 2
    /\ Depth(last.in) >= 1

\* C8 (as claimed): range with start > end or end > len(v) returns a
\* RangeError to the caller as a recoverable result.
C8_RangeErrorReturned ==
    (last.op = "range" /\ (last.start > last.end \/ last.end > len(last.in))) =>
        last.status = "err"

\* C8 (amended): range with start > end or end > len(v) fails an assertion
\* (a panic); no view is produced and the input view is as it was.
C8_RangeAsserts ==
    (last.op = "range" /\ (last.start > last.end \/ last.end > len(last.in))) =>
        /\ last.status = "panic"
        /\ last.msg = (IF last.start > last.end
                       THEN "assertion failed: start <= end"
                       ELSE "assertion failed: end <= self.len()")
        /\ df = last.in

C8_Witness ==
    /\ last.op = "range" /\ last.status = "panic"
    /\ last.start <= last.end /\ last.end > len(last.in)

\* the names a reader sees in the header of v (none when the header cannot
\* be read)
HeaderNames(v) == IF header(v).panic THEN {} ELSE Elems(header(v).val)

\* C9 (as claimed): drop_column with a name that matches no header name
\* returns ColumnNotFound to the caller as a recoverable result.
C9_ColumnNotFoundReturned ==
    (/\ last.op = "drop_column" /\ last.index.by = "name"
     /\ ~header(last.in).panic
     /\ last.index.name \notin HeaderNames(last.in)) =>
        last.status = "err"

\* C9 (amended): drop_column with a name that matches no header name panics
\* ("index out of Bound header ..."); no view is produced.
C9_ColumnNotFoundPanics ==
    (/\ last.op = "drop_column" /\ last.index.by = "name"
     /\ ~header(last.in).panic
     /\ last.index.name \notin HeaderNames(last.in)) =>
        /\ last.status = "panic"
        /\ last.msg = "index out of Bound header"
        /\ df = last.in

C9_Witness ==
    /\ last.op = "drop_column" /\ last.index.by = "name"
    /\ last.status = "panic"
    /\ ~header(last.in).panic
    /\ last.index.name \notin HeaderNames(last.in)
    /\ num_columns(last.in) >= 1

\* C10 (as claimed): a failing append_row, append_rows or append_table
\* leaves the header and the rows of the target table as they were.
C10_AppendAllOrNothing ==
    (/\ last.op \in {"append_line", "append_lines", "append_data_frame"}
     /\ last.status = "panic") =>
        /\ BaseHeader(df.df) = BaseHeader(last.in.df)
        /\ BaseRows(df.df) = BaseRows(last.in.df)

\* C11: whatever is done with the caller's handle (transformations,
\* group_by, materialisation and append_file, on a clone or a descendant or a
\* sibling of the kept view), the second reader still reads the length, the
\* header and the rows it read when it took its view.
C11_ReadersDoNotInterfere ==
    held.some => Reading(Deref(held.val.view, mem)) = held.val.seen

\* C11 witness: rows were appended through a handle that reaches the same
\* base node as the kept view
C11_Witness ==
    /\ held.some
    /\ last.op = "append_file" /\ last.status = "ok"
    /\ Leaf(last.in) = Leaf(held.val.view)
    /\ len(Deref(df, mem)) > held.val.seen.len

---------------------------------------------------------------------------
(* Claims about ingestion *)

\* what the tokenizer makes of a whole line
Tokenizes(line) == ~collect(line, ",").panic
CellCount(line) == Len(collect(line, ",").val)
ValidHeader(line) ==
    /\ Tokenizes(line)
    /\ \A j \in 1..CellCount(line) : collect(line, ",").val[j].tag = "String"

\* the 1-based numbers, at or after from, of the lines of text whose cell
\* count is not n (line 1 is the first line of the text)
WrongLines(text, from, n) == {i \in from..Len(text) : CellCount(text[i]) # n}

MinOf(S) == CHOOSE x \in S : \A y \in S : x <= y

\* C12: a text whose first line is a valid header is rejected at the first
\* data line whose cell count differs from the header's; the error names
\* that line by its 1-based number, the header being line 1, and no table
\* is produced.  Appending with the first line skipped numbers the lines
\* in the same way and leaves the table as it was.
C12_ArityErrorLine ==
    /\ (/\ last.op = "from_string"
        /\ last.text # <<>>
        /\ \A i \in 1..Len(last.text) : Tokenizes(last.text[i])
        /\ ValidHeader(last.text[1])
        /\ WrongLines(last.text, 2, CellCount(last.text[1])) # {}) =>
            /\ last.status = "err"
            /\ last.line = MinOf(WrongLines(last.text, 2, CellCount(last.text[1])))
            /\ df = None
    /\ (/\ last.op = "append_file"
        /\ last.skip_first_line
        /\ \A i \in 1..Len(last.text) : Tokenizes(last.text[i])
        /\ WrongLines(last.text, 2, num_columns(last.in.val)) # {}) =>
            /\ last.status = "err"
            /\ last.line = MinOf(WrongLines(last.text, 2, num_columns(last.in.val)))
            /\ df = last.in

\* C12 witness: the header a,b,c followed by the data line 1,2 is rejected
\* with line 2
C12_Witness ==
    /\ last.op = "from_string"
    /\ last.text = << <<"a", ",", "b", ",", "c">>, <<"1", ",", "2">> >>
    /\ last.status = "err"
    /\ last.line = 2

\* the iterator has been driven to its end over the given line
Tokenized(line) ==
    /\ chunk_iter.some
    /\ chunk_iter.val.line = line
    /\ chunk_iter.val.state = "end"

One == Float(FALSE, <<"1">>, <<>>)
Two == Float(FALSE, <<"2">>, <<>>)
OneAndHalf == Float(FALSE, <<"1">>, <<"5">>)

\* C13 (as claimed): x,[1 2] yields two cells, the second being
\* Point2D((1.0, 2.0)); a bracketed pair of float literals separated by one
\* space is read as that Point2D value.
C13_BracketedPairIsPoint ==
    /\ Tokenized(<<"x", ",", "[", "1", " ", "2", "]">>) =>
          chunk_iter.val.yielded = <<String(<<"x">>), Vec2D(One, Two)>>
    /\ Tokenized(<<"[", "1", " ", "2", "]">>) =>
          chunk_iter.val.yielded = <<Vec2D(One, Two)>>

\* C13 (amended): x,[1 2] yields two cells, the second being a List that
\* holds the one value Point2D((1.0, 2.0)): the bracket opens a group, and
\* the pair inside it is read as a Point2D.  Without brackets the pair is
\* read as the Point2D itself.
C13_BracketedPairIsListOfPoint ==
    /\ Tokenized(<<"x", ",", "[", "1", " ", "2", "]">>) =>
          chunk_iter.val.yielded = <<String(<<"x">>), Vector(<<Vec2D(One, Two)>>)>>
    /\ Tokenized(<<"[", "1", " ", "2", "]">>) =>
          chunk_iter.val.yielded = <<Vector(<<Vec2D(One, Two)>>)>>
    /\ Tokenized(<<"[", "1", ".", "5", " ", "2", "]">>) =>
          chunk_iter.val.yielded = <<Vector(<<Vec2D(OneAndHalf, Two)>>)>>
    /\ Tokenized(<<"1", " ", "2">>) =>
          chunk_iter.val.yielded = <<Vec2D(One, Two)>>

C13_Witness ==
    /\ Tokenized(<<"x", ",", "[", "1", " ", "2", "]">>)
    /\ Len(chunk_iter.val.yielded) = 2
    /\ chunk_iter.val.yielded[2].tag = "Vector"

\* a line that is one token outside any group: no separator, and neither
\* a space nor an opening grouping symbol in front
PlainToken(line) ==
    /\ line # <<>>
    /\ \A i \in 1..Len(line) : line[i] # ","
    /\ line[1] # " "
    /\ ~find_grouping(line[1]).some

\* 1, 11, 111, ...
RECURSIVE Repunit(_)
Repunit(n) == IF n = 0 THEN 0 ELSE 10 * Repunit(n - 1) + 1

MaxLiteral == <<"2", "1", "4", "7", "4", "8", "3", "6", "4", "7">>
MinLiteral == <<"-", "2", "1", "4", "7", "4", "8", "3", "6", "4", "8">>

\* C14: a token outside a group is decoded by the first literal syntax it
\* matches, in the order Boolean, Integer, Float, Timestamp, Point2D, and
\* is a String otherwise: 42 is Integer(42), 3.14 a Float, true a Boolean.
\* A whole number outside the i32 range is a Float, never an Integer with
\* a wrapped value.
C14_FirstMatchingType ==
    (/\ chunk_iter.some
     /\ chunk_iter.val.state = "end"
     /\ PlainToken(chunk_iter.val.line)) =>
        LET t == chunk_iter.val.line
            cell == chunk_iter.val.yielded[1]
        IN /\ Len(chunk_iter.val.yielded) = 1
           /\ t = <<"4", "2">> => cell = Integer(42)
           /\ t = <<"-", "7">> => cell = Integer(-7)
           /\ t = <<"3", ".", "1", "4">> => cell = Float(FALSE, <<"3">>, <<"1", "4">>)
           /\ t = <<"1", ".", "0">> => cell = One
           /\ t = <<"t", "r", "u", "e">> => cell = Boolean(TRUE)
           /\ t = <<"f", "a", "l", "s", "e">> => cell = Boolean(FALSE)
           /\ t = <<"1", " ", "2">> => cell = Vec2D(One, Two)
           /\ t = <<"x">> => cell = String(t)
           /\ t = <<"1", ".", "5", ".", "1">> => cell = String(t)
           /\ t = MaxLiteral => cell = Integer(I32_MAX)
           /\ t = MinLiteral => cell = Integer(I32_MIN)
           /\ (\A i \in 1..Len(t) : t[i] = "1") /\ Len(t) <= 9 =>
                 cell = Integer(Repunit(Len(t)))
           /\ (AllDigits(Unsigned(t)) /\ Unsigned(t) # <<>>) =>
                 cell.tag \in {"Integer", "Float"}
           /\ cell.tag = "Integer" =>
                 /\ AllDigits(Unsigned(t)) /\ Unsigned(t) # <<>>
                 /\ Len(Unsigned(t)) <= 9 \/ t \in {MaxLiteral, MinLiteral}
           /\ cell.tag = "Boolean" =>
                 t \in {<<"t", "r", "u", "e">>, <<"f", "a", "l", "s", "e">>}

\* C14 witness: 2147483648, one past the largest i32, was decoded as a Float
C14_Witness ==
    /\ Tokenized(<<"2", "1", "4", "7", "4", "8", "3", "6", "4", "8">>)
    /\ chunk_iter.val.yielded =
          <<Float(FALSE, <<"2", "1", "4", "7", "4", "8", "3", "6", "4", "8">>, <<>>)>>

\* the first closing symbol after the opening symbol the line starts with
CloserAt(line) == Position(line, find_grouping(line[1]).val, 1)

\* a line that starts with an opening grouping symbol whose closing symbol
\* occurs later, with a text in between that tokenizes
Grouped(line) ==
    /\ line # <<>>
    /\ find_grouping(line[1]).some
    /\ CloserAt(line) < Len(line)
    /\ Tokenizes(SubSeq(line, 2, CloserAt(line)))

InnerCells(line) == collect(SubSeq(line, 2, CloserAt(line)), ",").val

\* C16 (as claimed): for each of the six grouping pairs, the quote pairs
\* included, a token that starts with the opening symbol is read as the List
\* of the cells of the text strictly between the opening symbol and the
\* first later closing symbol.
C16_GroupIsListOfInner ==
    (/\ chunk_iter.some
     /\ chunk_iter.val.state # "new"
     /\ Grouped(chunk_iter.val.line)) =>
        /\ chunk_iter.val.yielded # <<>>
        /\ chunk_iter.val.yielded[1] = Vector(InnerCells(chunk_iter.val.line))

\* a group of a pair with different symbols, then the separator, then one
\* plain token
GroupThenToken(line) ==
    /\ Grouped(line)
    /\ line[1] # find_grouping(line[1]).val
    /\ CloserAt(line) + 2 < Len(line)
    /\ line[CloserAt(line) + 2] = ","
    /\ PlainToken(SubSeq(line, CloserAt(line) + 3, Len(line)))

\* C17 (as claimed): after a group the tokenizer skips the separator that
\* follows the closing symbol: group, separator, token yields two cells, the
\* List and the decoded token, with no empty cell between them.
C17_SeparatorAfterGroupSkipped ==
    (/\ chunk_iter.some
     /\ chunk_iter.val.state \in {"end", "panic"}
     /\ GroupThenToken(chunk_iter.val.line)) =>
        LET line == chunk_iter.val.line IN
        /\ chunk_iter.val.state = "end"
        /\ chunk_iter.val.yielded =
              <<Vector(InnerCells(line)),
                Data_from(SubSeq(line, CloserAt(line) + 3, Len(line)))>>

\* the line without the spaces at its start and directly after a separator
RECURSIVE Unspaced(_, _)
Unspaced(line, at_start) ==
    IF line = <<>> THEN <<>>
    ELSE IF at_start /\ Head(line) = " " THEN Unspaced(Tail(line), TRUE)
    ELSE <<Head(line)>> \o Unspaced(Tail(line), Head(line) = ",")

\* C18 (as claimed): spaces at the start of a line or directly after a
\* separator do not change the cells: the line yields what the line without
\* these spaces yields.
C18_LeadingSpacesIgnored ==
    (/\ chunk_iter.some
     /\ chunk_iter.val.state \in {"end", "panic"}
     /\ Tokenizes(Unspaced(chunk_iter.val.line, TRUE))) =>
        /\ chunk_iter.val.state = "end"
        /\ chunk_iter.val.yielded =
              collect(Unspaced(chunk_iter.val.line, TRUE), ",").val

---------------------------------------------------------------------------
(* Claims about the row iterator *)

FromFront(e) == ~e.back /\ e.item.some
FromBack(e) == e.back /\ e.item.some

\* C15: however next() and next_back() are interleaved on one row iterator
\* of a view, the calls from the front yield rows 0, 1, 2, ..., the calls
\* from the back yield rows len - 1, len - 2, ..., no row is yielded twice,
\* len rows are yielded in total, the reported remaining length is the
\* number of rows not yet yielded, and after the first None every call
\* returns None.
C15_RowIteratorMeetsInTheMiddle ==
    line_iter.some =>
        LET it == line_iter.val
            front == SelectSeq(it.log, FromFront)
            back == SelectSeq(it.log, FromBack)
        IN /\ it.status = "ok"
           /\ \A j \in 1..Len(front) : front[j].item = get(df, j - 1)
           /\ \A j \in 1..Len(back) : back[j].item = get(df, len(df) - j)
           /\ Len(front) + Len(back) <= len(df)
           /\ size_hint(it) = len(df) - Len(front) - Len(back)
           /\ \A i \in 1..Len(it.log) : ~it.log[i].item.some =>
                 /\ Len(front) + Len(back) = len(df)
                 /\ \A k \in i..Len(it.log) : ~it.log[k].item.some

\* C15 witness: rows were taken from both ends, the iterator ran dry and
\* was called again
C15_Witness ==
    /\ line_iter.some
    /\ len(df) >= 2
    /\ \E i, j \in 1..Len(line_iter.val.log) :
          FromFront(line_iter.val.log[i]) /\ FromBack(line_iter.val.log[j])
    /\ Len(line_iter.val.log) = len(df) + 2

---------------------------------------------------------------------------
(* Claims about sort's key function and about column index maps *)

\* C19 (as claimed): sort(v, key_fn) invokes the key function exactly once
\* per logical row, len(v) times in total.
C19_KeyOncePerRow ==
    (last.op = "sort" /\ last.status = "ok") => last.key_calls = len(last.in)

\* C19 (amended): sort(v, key_fn) invokes the key function twice for every
\* comparison the stable sort makes, once per side: never when v has fewer
\* than two rows, and an even number of times, at least 2 * (len(v) - 1),
\* otherwise.
C19_KeyTwicePerComparison ==
    (last.op = "sort" /\ last.status = "ok") =>
        /\ len(last.in) < 2 => last.key_calls = 0
        /\ len(last.in) >= 2 =>
              /\ last.key_calls % 2 = 0
              /\ last.key_calls >= 2 * (len(last.in) - 1)

\* C19 witness: a view of one row was sorted without a call of the key
\* function
C19_Witness ==
    /\ last.op = "sort" /\ last.status = "ok"
    /\ len(last.in) = 1
    /\ last.key_calls = 0

\* every entry of every ColumnReorder index map in the tree of v is smaller
\* than the column count of the node's parent
RECURSIVE ColumnMapsInRange(_)
ColumnMapsInRange(v) ==
    IF v.kind = "Base" THEN TRUE
    ELSE /\ ColumnMapsInRange(v.df)
         /\ v.kind = "ColumnReorder" =>
               \A i \in 1..Len(v.index_map) : v.index_map[i] < num_columns(v.df)

\* C20 (as claimed): in every reachable view the entries of every
\* ColumnReorder index map are smaller than the parent's column count, so
\* every column j < num_columns() has a header name and the header
\* iterator's assertion never fails; this covers the views made by
\* drop_all_column_except and drop_column with numeric indices.
C20_ColumnMapsInRange ==
    /\ ColumnMapsInRange(df)
    /\ \A j \in 0..(num_columns(df) - 1) : get_on_header(df, j).some
    /\ ~header(df).panic

---------------------------------------------------------------------------
(* C21: row index maps stay inside their parents *)

\* every entry of every LineReorder index map in the tree of v is smaller
\* than the row count of the node's parent
RECURSIVE LineMapsInRange(_)
LineMapsInRange(v) ==
    IF v.kind = "Base" THEN TRUE
    ELSE /\ LineMapsInRange(v.df)
         /\ v.kind = "LineReorder" =>
               \A i \in 1..Len(v.index_map) : v.index_map[i] < len(v.df)

\* the views the caller can hold: the handle and the views of the groups
HeldViews == {df} \cup {g.df : g \in groups}

\* C21: in every view reached through head, tail, range, sort, filter,
\* group_by and the column operations, every entry of every LineReorder
\* index map is smaller than its parent's row count, get(i) returns a row
\* exactly when i < len(), and the row iterator's assertion never fails.
C21_LineMapsInRange ==
    \A v \in HeldViews :
        /\ LineMapsInRange(v)
        /\ \A i \in 0..(MaxRows + 1) : get(v, i).some <=> i < len(v)
        /\ ~iter(v).panic

\* a proper selection of rows out of a reordered view: its rows resolve
\* through two index maps, and the index just past its end gives None
C21_Witness ==
    /\ last.status = "ok"
    /\ df.kind = "LineReorder"
    /\ df.df.kind = "LineReorder"
    /\ len(df) >= 1
    /\ len(df) < len(df.df)
    /\ df.df.index_map[1] # 0
    /\ get(df, 0).some
    /\ ~get(df, len(df)).some

====
